---- MODULE Spec2Model ----
(***************************************************************************)
(* Token propagation between a host page and two embedded frames           *)
(* (patient, staff): the cookie-backed Token Store (EnvironmentService),   *)
(* the URL composer, the deferred message sender, the message receiver and *)
(* the visibility controller (App).                                        *)
(*                                                                         *)
(* Strings are sequences of one-character strings, so that splitting,      *)
(* trimming, percent-encoding and percent-decoding are computed as the     *)
(* code computes them.                                                     *)
(***************************************************************************)
EXTENDS Integers, Sequences, FiniteSets, TLC

VARIABLES
    platform,            \* PLATFORM_ID: "browser" or "server"
    platformCheck,       \* TRUE: the EnvironmentService copy that tests isPlatformBrowser
    jar,                 \* the browser's cookie store for this origin, in creation order
    now,                 \* the clock: whole seconds and milliseconds since the epoch
    expiry,              \* the expiry the last write of the authToken cookie carried
    last,                \* the call or event the event loop dispatched most recently
    phase,               \* "constructed" before ngOnInit, "initialised" after
    listening,           \* the window message listener is installed
    token,               \* App.token, the login input field
    showPatientIframe,
    showStaffIframe,
    patientIframeUrl,
    staffIframeUrl,
    timers,              \* pending setTimeout callbacks (all 500 ms, so FIFO)
    nShows,              \* per frame: Hidden -> Shown toggles so far
    nPosted,             \* per frame: postMessage calls into the frame's window so far
    requests             \* the HTTP requests the Express server has accepted, in arrival order

storeVars == <<platform, platformCheck, jar, now, expiry>>
hostVars == <<phase, listening, token, showPatientIframe, showStaffIframe,
              patientIframeUrl, staffIframeUrl, timers, nShows, nPosted>>
vars == <<platform, platformCheck, jar, now, expiry, last, phase, listening, token,
          showPatientIframe, showStaffIframe, patientIframeUrl, staffIframeUrl,
          timers, nShows, nPosted, requests>>

(***************************************************************************)
(* Bounds                                                                  *)
(***************************************************************************)
MaxLen == 2          \* longest token passed to setToken in SpecStore
MaxShows == 2        \* Hidden -> Shown toggles of both frames together in Spec
MaxPeriods == 1      \* 30-day periods the clock of SpecExpiry runs through
MaxRequests == 2     \* HTTP requests the server of SpecProxy accepts

(***************************************************************************)
(* Characters and strings                                                  *)
(***************************************************************************)
\* Printable ASCII, Printable[i] has character code 31 + i (code 96, the grave
\* accent, cannot be written in a string of this language and is named GRAVE).
Printable ==
  <<
     " ", "!", "\"", "#", "$", "%", "&", "'", "(", ")", "*", "+", ",", "-", ".", "/",
     "0", "1", "2", "3", "4", "5", "6", "7", "8", "9", ":", ";", "<", "=", ">", "?",
     "@", "A", "B", "C", "D", "E", "F", "G", "H", "I", "J", "K", "L", "M", "N", "O",
     "P", "Q", "R", "S", "T", "U", "V", "W", "X", "Y", "Z", "[", "\\", "]", "^", "_",
     "GRAVE", "a", "b", "c", "d", "e", "f", "g", "h", "i", "j", "k", "l", "m", "n", "o",
     "p", "q", "r", "s", "t", "u", "v", "w", "x", "y", "z", "{", "|", "}", "~"
  >>

CharCode(c) == 31 + (CHOOSE i \in 1..Len(Printable) : Printable[i] = c)

HexDigits == <<"0", "1", "2", "3", "4", "5", "6", "7", "8", "9", "A", "B", "C", "D", "E", "F">>

LowerHex == <<"a", "b", "c", "d", "e", "f">>

\* value of a hexadecimal digit, -1 for any other character
HexVal(c) ==
    IF \E i \in 1..16 : HexDigits[i] = c
    THEN (CHOOSE i \in 1..16 : HexDigits[i] = c) - 1
    ELSE IF \E i \in 1..6 : LowerHex[i] = c
    THEN (CHOOSE i \in 1..6 : LowerHex[i] = c) + 9
    ELSE -1

\* the alphabet tokens are drawn from: a letter, the cookie separators, the
\* escape character, a space, and two hexadecimal digits (so that %3B, an
\* escaped semicolon, and %B3, an invalid escape, can be spelled)
Alphabet == {"z", ";", "=", "%", " ", "3", "B"}

StringsUpTo(n) == UNION {[1..k -> Alphabet] : k \in 0..n}

Cons(c, s) == <<c>> \o s

\* String.prototype.indexOf(c) for a one-character c, 1-based, 0 when absent
IndexOf(s, c) ==
    IF \E i \in 1..Len(s) : s[i] = c
    THEN CHOOSE i \in 1..Len(s) : s[i] = c /\ \A j \in 1..(i - 1) : s[j] # c
    ELSE 0

\* s.indexOf(p) === 0
StartsWith(s, p) == Len(s) >= Len(p) /\ SubSeq(s, 1, Len(p)) = p

RECURSIVE TrimStart(_)
TrimStart(s) == IF s # <<>> /\ Head(s) = " " THEN TrimStart(Tail(s)) ELSE s

RECURSIVE TrimEnd(_)
TrimEnd(s) ==
    IF s # <<>> /\ s[Len(s)] = " " THEN TrimEnd(SubSeq(s, 1, Len(s) - 1)) ELSE s

\* String.prototype.trim()
Trim(s) == TrimEnd(TrimStart(s))

\* String.prototype.split(c) for a one-character separator
RECURSIVE Split(_, _)
Split(s, c) ==
    LET i == IndexOf(s, c)
    IN  IF i = 0 THEN <<s>>
        ELSE Cons(SubSeq(s, 1, i - 1), Split(SubSeq(s, i + 1, Len(s)), c))

(***************************************************************************)
(* Percent-encoding (the global functions the code calls)                  *)
(***************************************************************************)
\* the byte written as the escape s[i], s[i+1], s[i+2]; -1 when these are not
\* a percent sign followed by two hexadecimal digits
EscapeAt(s, i) ==
    IF i + 2 <= Len(s) /\ s[i] = "%" /\ HexVal(s[i + 1]) >= 0 /\ HexVal(s[i + 2]) >= 0
    THEN 16 * HexVal(s[i + 1]) + HexVal(s[i + 2])
    ELSE -1

\* number of UTF-8 continuation bytes after lead byte b; -1 when b starts no character
Continuations(b) ==
    IF b < 128 THEN 0
    ELSE IF b >= 194 /\ b <= 223 THEN 1
    ELSE IF b >= 224 /\ b <= 239 THEN 2
    ELSE IF b >= 240 /\ b <= 244 THEN 3
    ELSE -1

\* b is a well-formed k-th continuation byte after lead byte b0
ContinuationOk(b0, k, b) ==
    /\ b >= (IF k = 1 /\ b0 = 224 THEN 160 ELSE IF k = 1 /\ b0 = 240 THEN 144 ELSE 128)
    /\ b <= (IF k = 1 /\ b0 = 237 THEN 159 ELSE IF k = 1 /\ b0 = 244 THEN 143 ELSE 191)

\* the character with a code point; outside printable ASCII it is named by its code
CharOf(code) ==
    IF code >= 32 /\ code <= 126 THEN Printable[code - 31] ELSE "U+" \o ToString(code)

RECURSIVE DecodeFrom(_, _)
DecodeFrom(s, i) ==
    IF i > Len(s) THEN [err |-> FALSE, str |-> <<>>]
    ELSE IF s[i] # "%"
    THEN LET r == DecodeFrom(s, i + 1)
         IN  [err |-> r.err, str |-> IF r.err THEN <<>> ELSE Cons(s[i], r.str)]
    ELSE LET b0 == EscapeAt(s, i)
             n == IF b0 < 0 THEN -1 ELSE Continuations(b0)
             b(k) == EscapeAt(s, i + 3 * k)
             ok == n >= 0 /\ \A k \in 1..n : ContinuationOk(b0, k, b(k))
             code == IF n = 0 THEN b0
                     ELSE IF n = 1 THEN (b0 - 192) * 64 + (b(1) - 128)
                     ELSE IF n = 2 THEN (b0 - 224) * 4096 + (b(1) - 128) * 64 + (b(2) - 128)
                     ELSE (b0 - 240) * 262144 + (b(1) - 128) * 4096
                          + (b(2) - 128) * 64 + (b(3) - 128)
             r == DecodeFrom(s, i + 3 * (n + 1))
         IN  IF ~ok \/ r.err THEN [err |-> TRUE, str |-> <<>>]
             ELSE [err |-> FALSE, str |-> Cons(CharOf(code), r.str)]

\* decodeURIComponent(s): err is TRUE when it throws URIError
decodeURIComponent(s) == DecodeFrom(s, 1)

\* the characters encodeURIComponent leaves alone
Unreserved ==
    {Printable[c - 31] : c \in (48..57) \cup (65..90) \cup (97..122)}
        \cup {"-", "_", ".", "!", "~", "*", "'", "(", ")"}

EncodeChar(c) ==
    IF c \in Unreserved THEN <<c>>
    ELSE <<"%", HexDigits[(CharCode(c) \div 16) + 1], HexDigits[(CharCode(c) % 16) + 1]>>

\* encodeURIComponent(s) for a string of printable ASCII characters
RECURSIVE encodeURIComponent(_)
encodeURIComponent(s) ==
    IF s = <<>> THEN <<>> ELSE EncodeChar(Head(s)) \o encodeURIComponent(Tail(s))

(***************************************************************************)
(* document.cookie                                                         *)
(***************************************************************************)
\* the name and value the browser takes from a set-cookie string: the text
\* before the first semicolon, split at its first equals sign, both trimmed
CookiePair(str) ==
    LET semi == IndexOf(str, ";")
        nv == IF semi = 0 THEN str ELSE SubSeq(str, 1, semi - 1)
        eq == IndexOf(nv, "=")
    IN  [name |-> Trim(SubSeq(nv, 1, eq - 1)), value |-> Trim(SubSeq(nv, eq + 1, Len(nv)))]

RECURSIVE ReplaceCookie(_, _)
ReplaceCookie(j, c) ==
    IF j = <<>> THEN <<>>
    ELSE Cons(IF Head(j).name = c.name THEN c ELSE Head(j), ReplaceCookie(Tail(j), c))

\* document.cookie = str \o "; expires=<date>; path=/": a date in the past
\* deletes the cookie of that name, a date in the future stores or replaces
\* it. Text of str after its first semicolon is read as further attributes;
\* no attribute name can be spelled in Alphabet, so the browser ignores it.
DocumentCookieSet(j, str, expires) ==
    LET c == CookiePair(str)
    IN  IF expires = "past" THEN SelectSeq(j, LAMBDA e : e.name # c.name)
        ELSE IF \E i \in 1..Len(j) : j[i].name = c.name THEN ReplaceCookie(j, c)
        ELSE Append(j, c)

\* reading document.cookie: the entries joined by semicolon and space
RECURSIVE DocumentCookie(_)
DocumentCookie(j) ==
    IF j = <<>> THEN <<>>
    ELSE LET e == Head(j)
             entry == IF e.name = <<>> THEN e.value ELSE e.name \o <<"=">> \o e.value
         IN  IF Len(j) = 1 THEN entry
             ELSE entry \o <<";", " ">> \o DocumentCookie(Tail(j))

(***************************************************************************)
(* EnvironmentService (Token Store)                                        *)
(***************************************************************************)
TOKEN_KEY == <<"a", "u", "t", "h", "T", "o", "k", "e", "n">>

\* results of a call: a string, null, or the error it throws
Str(s) == [tag |-> "string", str |-> s]

Null == [tag |-> "null", str |-> <<>>]

Thrown(e) == [tag |-> e, str |-> <<>>]

Threw(r) == r.tag \notin {"string", "null"}

\* JavaScript truthiness of a string-or-null result
Truthy(r) == r.tag = "string" /\ r.str # <<>>

\* the loop of getToken over the split cookie string
RECURSIVE FindCookie(_, _)
FindCookie(cookieArray, name) ==
    IF cookieArray = <<>> THEN Null
    ELSE LET cookie == Trim(Head(cookieArray))
         IN  IF StartsWith(cookie, name)
             THEN Str(SubSeq(cookie, Len(name) + 1, Len(cookie)))
             ELSE FindCookie(Tail(cookieArray), name)

\* getToken() on platform plat with cookie store j; check tells which copy of
\* the service runs. Without a document, reading document.cookie throws.
GetTokenIn(plat, check, j) ==
    IF plat = "browser"
    THEN LET name == TOKEN_KEY \o <<"=">>
             decodedCookie == decodeURIComponent(DocumentCookie(j))
         IN  IF decodedCookie.err THEN Thrown("URIError")
             ELSE FindCookie(Split(decodedCookie.str, ";"), name)
    ELSE IF check THEN Null
    ELSE Thrown("ReferenceError")

getToken == GetTokenIn(platform, platformCheck, jar)

\* hasToken() written as getToken() !== null
HasTokenNotNull(plat, check, j) ==
    LET t == GetTokenIn(plat, check, j)
    IN  IF Threw(t) THEN t.tag ELSE IF t.tag = "string" THEN "true" ELSE "false"

\* hasToken(): "true", "false", or the name of the error getToken throws
HasTokenIn(plat, check, j) ==
    LET t == GetTokenIn(plat, check, j)
    IN  IF Threw(t) THEN t.tag ELSE IF Truthy(t) THEN "true" ELSE "false"

hasToken == HasTokenIn(platform, platformCheck, jar)

\* times are whole seconds plus milliseconds: 30 days in milliseconds does
\* not fit the integers of the checker, and the expires attribute is written
\* to the second
ThirtyDaysSec == 30 * 24 * 60 * 60

\* a forgotten factor: 30 hours instead of 30 days
ExpiresAfterThirtyHours(t) == [sec |-> t.sec + 30 * 60 * 60, ms |-> 0]

\* the expires attribute setToken writes at time t: t.getTime() plus
\* 30*24*60*60*1000 ms, printed by toUTCString(), which has no milliseconds
ExpiresAfterSet(t) == [sec |-> t.sec + ThirtyDaysSec, ms |-> 0]

\* the expires attribute removeToken writes: the epoch
ExpiresEpoch == [sec |-> 0, ms |-> 0]

\* no authToken cookie was written yet
NoExpiry == [sec |-> -1, ms |-> 0]

\* instant a is earlier than instant b
Before(a, b) == a.sec < b.sec \/ (a.sec = b.sec /\ a.ms < b.ms)

\* when the page is loaded
StartTime == [sec |-> 1, ms |-> 500]

\* the cookie store after setToken(t) in a browser
JarAfterSetToken(j, t) == DocumentCookieSet(j, TOKEN_KEY \o <<"=">> \o t, "future")

\* the cookie store after removeToken() in a browser
JarAfterRemoveToken(j) == DocumentCookieSet(j, TOKEN_KEY \o <<"=">>, "past")

\* what a write to document.cookie throws on this platform
WriteError == IF platform # "browser" /\ ~platformCheck THEN "ReferenceError" ELSE "none"

setToken(t) ==
    /\ jar' = IF platform = "browser" THEN JarAfterSetToken(jar, t) ELSE jar
    /\ expiry' = IF platform = "browser" THEN ExpiresAfterSet(now) ELSE expiry
    /\ last' = [op |-> "setToken", arg |-> t, err |-> WriteError]
    /\ UNCHANGED <<requests, platform, platformCheck, now, hostVars>>

removeToken ==
    /\ jar' = IF platform = "browser" THEN JarAfterRemoveToken(jar) ELSE jar
    /\ expiry' = IF platform = "browser" THEN ExpiresEpoch ELSE expiry
    /\ last' = [op |-> "removeToken", arg |-> <<>>, err |-> WriteError]
    /\ UNCHANGED <<requests, platform, platformCheck, now, hostVars>>

\* cookies other code of the same origin stores next to the token
OtherCookies ==
    { [name |-> <<"x">>, value |-> <<"%", "3", "B">> \o TOKEN_KEY \o <<"=", "z">>],
      [name |-> TOKEN_KEY \o <<"2">>, value |-> <<"3">>] }

SetOtherCookie(c) ==
    /\ platform = "browser"
    /\ jar' = DocumentCookieSet(jar, c.name \o <<"=">> \o c.value, "future")
    /\ last' = [op |-> "otherCookie", arg |-> c.value, err |-> "none"]
    /\ UNCHANGED <<requests, platform, platformCheck, now, expiry, hostVars>>

(***************************************************************************)
(* App (Host): state after construction                                    *)
(***************************************************************************)
Undefined == <<"undefined">>

Frames == {"patient", "staff"}

HostConstructed ==
    /\ phase = "constructed"
    /\ listening = FALSE
    /\ token = <<>>
    /\ showPatientIframe = FALSE
    /\ showStaffIframe = FALSE
    /\ patientIframeUrl = Undefined
    /\ staffIframeUrl = Undefined
    /\ timers = <<>>
    /\ nShows = [f \in Frames |-> 0]
    /\ nPosted = [f \in Frames |-> 0]

(***************************************************************************)
(* App (Host): operations                                                  *)
(***************************************************************************)
\* the base URLs hold no query and are never taken apart: one symbol each
patientUrl == <<"https://fe-react-v1.practeaz.workers.dev/patient">>

staffUrl == <<"https://fe-react-v1.practeaz.workers.dev/staff">>

\* the origin of the embedded application, and the target origin of postMessage
FrameOrigin == "https://fe-react-v1.practeaz.workers.dev"

TargetOrigin == "https://fe-react-v1.practeaz.workers.dev/"

TokenQuery == <<"?", "t", "o", "k", "e", "n", "=">>

\* the URL composed without encodeURIComponent
ComposeUrlRaw(base, tok) ==
    IF Truthy(tok) THEN base \o TokenQuery \o tok.str ELSE base

\* one URL of updateIframeUrls, for the result tok of getToken(); the
\* sanitizer wraps the string without changing it
ComposeUrl(base, tok) ==
    IF Truthy(tok) THEN base \o TokenQuery \o encodeURIComponent(tok.str) ELSE base

\* updateIframeUrls() that recomputes the patient URL only
UpdateIframeUrlsPatientOnly(j) ==
    LET tok == GetTokenIn(platform, platformCheck, j)
    IN  IF Threw(tok)
        THEN [err |-> tok.tag, patient |-> patientIframeUrl, staff |-> staffIframeUrl]
        ELSE [err |-> "none", patient |-> ComposeUrl(patientUrl, tok),
              staff |-> staffIframeUrl]

\* updateIframeUrls() with cookie store j: the error it throws and both URLs
UpdateIframeUrls(j) ==
    LET tok == GetTokenIn(platform, platformCheck, j)
    IN  IF Threw(tok)
        THEN [err |-> tok.tag, patient |-> patientIframeUrl, staff |-> staffIframeUrl]
        ELSE [err |-> "none", patient |-> ComposeUrl(patientUrl, tok),
              staff |-> ComposeUrl(staffUrl, tok)]

\* ngOnInit(): the listener is installed only when updateIframeUrls returns
NgOnInit ==
    /\ phase = "constructed"
    /\ LET u == UpdateIframeUrls(jar)
       IN  /\ patientIframeUrl' = u.patient
           /\ staffIframeUrl' = u.staff
           /\ listening' = (u.err = "none")
           /\ last' = [op |-> "ngOnInit", err |-> u.err]
    /\ phase' = "initialised"
    /\ UNCHANGED <<requests, storeVars, token, showPatientIframe, showStaffIframe,
                   timers, nShows, nPosted>>

\* what the user types into the login field: nothing, a plain token, a token
\* that needs encoding in a URL, one the cookie parser cuts to the empty
\* value, and one that is not a valid escape sequence
Inputs == {<<>>, <<"z">>, <<"z", " ", "3">>, <<";">>, <<"%">>}

\* the two-way binding of the login field
InputToken(t) ==
    /\ phase = "initialised"
    /\ token' = t
    /\ last' = [op |-> "input", err |-> "none"]
    /\ UNCHANGED <<requests, storeVars, phase, listening, showPatientIframe, showStaffIframe,
                   patientIframeUrl, staffIframeUrl, timers, nShows, nPosted>>

\* onLogin() that shows the patient frame once the token is stored
onLoginAutoShow ==
    /\ phase = "initialised"
    /\ IF token # <<>>
       THEN LET j == JarAfterSetToken(jar, token)
                u == UpdateIframeUrls(j)
            IN  /\ jar' = j
                /\ expiry' = ExpiresAfterSet(now)
                /\ patientIframeUrl' = u.patient
                /\ staffIframeUrl' = u.staff
                /\ token' = IF u.err = "none" THEN <<>> ELSE token
                /\ showPatientIframe' = (showPatientIframe \/ u.err = "none")
                /\ last' = [op |-> "onLogin", stored |-> TRUE, err |-> u.err]
       ELSE /\ last' = [op |-> "onLogin", stored |-> FALSE, err |-> "none"]
            /\ UNCHANGED <<jar, expiry, patientIframeUrl, staffIframeUrl, token,
                           showPatientIframe>>
    /\ UNCHANGED <<requests, platform, platformCheck, now, phase, listening,
                   showStaffIframe, timers, nShows, nPosted>>

\* onLogin() that stores the token and leaves the URLs as they are
onLoginNoRecompute ==
    /\ phase = "initialised"
    /\ IF token # <<>>
       THEN /\ jar' = JarAfterSetToken(jar, token)
            /\ expiry' = ExpiresAfterSet(now)
            /\ token' = <<>>
            /\ last' = [op |-> "onLogin", stored |-> TRUE, err |-> "none"]
            /\ UNCHANGED <<patientIframeUrl, staffIframeUrl>>
       ELSE /\ last' = [op |-> "onLogin", stored |-> FALSE, err |-> "none"]
            /\ UNCHANGED <<jar, expiry, patientIframeUrl, staffIframeUrl, token>>
    /\ UNCHANGED <<requests, platform, platformCheck, now, phase, listening, showPatientIframe,
                   showStaffIframe, timers, nShows, nPosted>>

\* onLogin() without the test of the input
onLoginUnguarded ==
    /\ phase = "initialised"
    /\ LET j == JarAfterSetToken(jar, token)
           u == UpdateIframeUrls(j)
       IN  /\ jar' = j
           /\ expiry' = ExpiresAfterSet(now)
           /\ patientIframeUrl' = u.patient
           /\ staffIframeUrl' = u.staff
           /\ token' = IF u.err = "none" THEN <<>> ELSE token
           /\ last' = [op |-> "onLogin", stored |-> token # <<>>, err |-> u.err]
    /\ UNCHANGED <<requests, platform, platformCheck, now, phase, listening, showPatientIframe,
                   showStaffIframe, timers, nShows, nPosted>>

onLogin ==
    /\ phase = "initialised"
    /\ IF token # <<>>
       THEN LET j == JarAfterSetToken(jar, token)
                u == UpdateIframeUrls(j)
            IN  /\ jar' = j
                /\ expiry' = ExpiresAfterSet(now)
                /\ patientIframeUrl' = u.patient
                /\ staffIframeUrl' = u.staff
                /\ token' = IF u.err = "none" THEN <<>> ELSE token
                /\ last' = [op |-> "onLogin", stored |-> TRUE, err |-> u.err]
       ELSE /\ last' = [op |-> "onLogin", stored |-> FALSE, err |-> "none"]
            /\ UNCHANGED <<jar, expiry, patientIframeUrl, staffIframeUrl, token>>
    /\ UNCHANGED <<requests, platform, platformCheck, now, phase, listening, showPatientIframe,
                   showStaffIframe, timers, nShows, nPosted>>

\* a toggle that recomputes and schedules the send on hiding too
ToggleEffectsAlways(f, shown) ==
    LET u == UpdateIframeUrls(jar)
    IN  /\ patientIframeUrl' = u.patient
        /\ staffIframeUrl' = u.staff
        /\ timers' = IF u.err = "none" THEN Append(timers, f) ELSE timers
        /\ nShows' = IF shown THEN [nShows EXCEPT ![f] = @ + 1] ELSE nShows
        /\ last' = [op |-> "toggle", frame |-> f, shown |-> shown, err |-> u.err]

\* a toggle that recomputes the URLs but forgets the setTimeout
ToggleEffectsNoTimer(f, shown) ==
    IF shown
    THEN LET u == UpdateIframeUrls(jar)
         IN  /\ patientIframeUrl' = u.patient
             /\ staffIframeUrl' = u.staff
             /\ timers' = timers
             /\ nShows' = [nShows EXCEPT ![f] = @ + 1]
             /\ last' = [op |-> "toggle", frame |-> f, shown |-> TRUE, err |-> u.err]
    ELSE /\ last' = [op |-> "toggle", frame |-> f, shown |-> FALSE, err |-> "none"]
         /\ UNCHANGED <<patientIframeUrl, staffIframeUrl, timers, nShows>>

\* the part of a toggle after the flag is flipped: the URLs are recomputed and
\* the send is scheduled only when the frame is now shown; an error thrown by
\* updateIframeUrls leaves the timer unscheduled
ToggleEffects(f, shown) ==
    IF shown
    THEN LET u == UpdateIframeUrls(jar)
         IN  /\ patientIframeUrl' = u.patient
             /\ staffIframeUrl' = u.staff
             /\ timers' = IF u.err = "none" THEN Append(timers, f) ELSE timers
             /\ nShows' = [nShows EXCEPT ![f] = @ + 1]
             /\ last' = [op |-> "toggle", frame |-> f, shown |-> TRUE, err |-> u.err]
    ELSE /\ last' = [op |-> "toggle", frame |-> f, shown |-> FALSE, err |-> "none"]
         /\ UNCHANGED <<patientIframeUrl, staffIframeUrl, timers, nShows>>

TotalShows == nShows["patient"] + nShows["staff"]

\* a patient toggle that hides the staff frame when it shows the patient frame
togglePatientExclusive ==
    /\ phase = "initialised"
    /\ showPatientIframe \/ TotalShows < MaxShows
    /\ showPatientIframe' = ~showPatientIframe
    /\ showStaffIframe' = (showStaffIframe /\ showPatientIframe)
    /\ ToggleEffects("patient", ~showPatientIframe)
    /\ UNCHANGED <<requests, storeVars, phase, listening, token, nPosted>>

togglePatientIframe ==
    /\ phase = "initialised"
    /\ showPatientIframe \/ TotalShows < MaxShows
    /\ showPatientIframe' = ~showPatientIframe
    /\ ToggleEffects("patient", ~showPatientIframe)
    /\ UNCHANGED <<requests, storeVars, phase, listening, token, showStaffIframe, nPosted>>

toggleStaffIframe ==
    /\ phase = "initialised"
    /\ showStaffIframe \/ TotalShows < MaxShows
    /\ showStaffIframe' = ~showStaffIframe
    /\ ToggleEffects("staff", ~showStaffIframe)
    /\ UNCHANGED <<requests, storeVars, phase, listening, token, showPatientIframe, nPosted>>

\* sendTokenToIframe(type) without the test of the token
SendTokenUnchecked(type, live) ==
    LET tok == getToken
    IN  IF Threw(tok) THEN [err |-> tok.tag, posted |-> FALSE, msg |-> <<>>]
        ELSE IF live
        THEN [err |-> "none", posted |-> TRUE,
              msg |-> <<[type |-> "AUTH_TOKEN",
                         token |-> IF tok = Null THEN <<"null">> ELSE tok.str,
                         targetOrigin |-> TargetOrigin, window |-> type]>>]
        ELSE [err |-> "none", posted |-> FALSE, msg |-> <<>>]

\* sendTokenToIframe(type) posting to any origin
SendTokenWildcard(type, live) ==
    LET tok == getToken
    IN  IF Threw(tok) THEN [err |-> tok.tag, posted |-> FALSE, msg |-> <<>>]
        ELSE IF Truthy(tok) /\ live
        THEN [err |-> "none", posted |-> TRUE,
              msg |-> <<[type |-> "AUTH_TOKEN", token |-> tok.str,
                         targetOrigin |-> "*", window |-> type]>>]
        ELSE [err |-> "none", posted |-> FALSE, msg |-> <<>>]

\* sendTokenToIframe(type) that posts only while the frame is shown
SendTokenIfShown(type, live) ==
    LET tok == getToken
        shown == IF type = "patient" THEN showPatientIframe ELSE showStaffIframe
    IN  IF Threw(tok) THEN [err |-> tok.tag, posted |-> FALSE, msg |-> <<>>]
        ELSE IF Truthy(tok) /\ live /\ shown
        THEN [err |-> "none", posted |-> TRUE,
              msg |-> <<[type |-> "AUTH_TOKEN", token |-> tok.str,
                         targetOrigin |-> TargetOrigin, window |-> type]>>]
        ELSE [err |-> "none", posted |-> FALSE, msg |-> <<>>]

\* sendTokenToIframe(type): what it throws and the message it posts, if any;
\* live tells whether querySelector finds the frame element with a window
SendTokenToIframe(type, live) ==
    LET tok == getToken
    IN  IF Threw(tok) THEN [err |-> tok.tag, posted |-> FALSE, msg |-> <<>>]
        ELSE IF Truthy(tok) /\ live
        THEN [err |-> "none", posted |-> TRUE,
              msg |-> <<[type |-> "AUTH_TOKEN", token |-> tok.str,
                         targetOrigin |-> TargetOrigin, window |-> type]>>]
        ELSE [err |-> "none", posted |-> FALSE, msg |-> <<>>]

\* the oldest pending setTimeout callback runs
TimerFires(live) ==
    /\ timers # <<>>
    /\ LET f == Head(timers)
           r == SendTokenToIframe(f, live)
       IN  /\ nPosted' = IF r.posted THEN [nPosted EXCEPT ![f] = @ + 1] ELSE nPosted
           /\ last' = [op |-> "timer", frame |-> f, live |-> live, err |-> r.err,
                       msg |-> r.msg,
                       afterLogin |-> (last.op = "onLogin" /\ last.stored)]
    /\ timers' = Tail(timers)
    /\ UNCHANGED <<requests, storeVars, phase, listening, token, showPatientIframe,
                   showStaffIframe, patientIframeUrl, staffIframeUrl, nShows>>

\* the origins a message event can carry
Origins == {FrameOrigin, "https://evil.example"}

\* event.data: null, undefined, a string, a number, and objects with the
\* close types, the AUTH_TOKEN type and no type
MessageData ==
    { [typeof |-> "object", truthy |-> FALSE, type |-> "undefined"],
      [typeof |-> "undefined", truthy |-> FALSE, type |-> "undefined"],
      [typeof |-> "string", truthy |-> TRUE, type |-> "undefined"],
      [typeof |-> "number", truthy |-> TRUE, type |-> "undefined"] }
    \cup { [typeof |-> "object", truthy |-> TRUE, type |-> ty] :
            ty \in {"CLOSE_PATIENT_IFRAME", "CLOSE_STAFF_IFRAME", "AUTH_TOKEN", "undefined"} }

\* a listener that also removes the stored token when it closes a frame
onMessageRemovesToken(origin, data) ==
    /\ listening
    /\ IF ~data.truthy \/ data.typeof # "object"
       THEN UNCHANGED <<showPatientIframe, showStaffIframe, jar, expiry>>
       ELSE /\ showPatientIframe' =
                  IF data.type = "CLOSE_PATIENT_IFRAME" THEN FALSE ELSE showPatientIframe
            /\ showStaffIframe' =
                  IF data.type = "CLOSE_STAFF_IFRAME" THEN FALSE ELSE showStaffIframe
            /\ IF data.type \in {"CLOSE_PATIENT_IFRAME", "CLOSE_STAFF_IFRAME"}
               THEN jar' = JarAfterRemoveToken(jar) /\ expiry' = ExpiresEpoch
               ELSE UNCHANGED <<jar, expiry>>
    /\ last' = [op |-> "message", origin |-> origin, data |-> data, err |-> "none"]
    /\ UNCHANGED <<requests, platform, platformCheck, now, phase, listening, token,
                   patientIframeUrl, staffIframeUrl, timers, nShows, nPosted>>

\* a listener that flips the flag as toggle does
onMessageToggles(origin, data) ==
    /\ listening
    /\ IF ~data.truthy \/ data.typeof # "object"
       THEN UNCHANGED <<showPatientIframe, showStaffIframe>>
       ELSE /\ showPatientIframe' =
                  IF data.type = "CLOSE_PATIENT_IFRAME" THEN ~showPatientIframe
                  ELSE showPatientIframe
            /\ showStaffIframe' =
                  IF data.type = "CLOSE_STAFF_IFRAME" THEN ~showStaffIframe
                  ELSE showStaffIframe
    /\ last' = [op |-> "message", origin |-> origin, data |-> data, err |-> "none"]
    /\ UNCHANGED <<requests, storeVars, phase, listening, token, patientIframeUrl,
                   staffIframeUrl, timers, nShows, nPosted>>

\* a listener without the guard: reading the type of null or undefined throws
onMessageNoGuard(origin, data) ==
    /\ listening
    /\ showPatientIframe' =
          IF data.truthy /\ data.type = "CLOSE_PATIENT_IFRAME" THEN FALSE
          ELSE showPatientIframe
    /\ showStaffIframe' =
          IF data.truthy /\ data.type = "CLOSE_STAFF_IFRAME" THEN FALSE
          ELSE showStaffIframe
    /\ last' = [op |-> "message", origin |-> origin, data |-> data,
                err |-> IF data.truthy THEN "none" ELSE "TypeError"]
    /\ UNCHANGED <<requests, storeVars, phase, listening, token, patientIframeUrl,
                   staffIframeUrl, timers, nShows, nPosted>>

\* a listener that hides the other frame than the one named by the type
onMessageSwapped(origin, data) ==
    /\ listening
    /\ IF ~data.truthy \/ data.typeof # "object"
       THEN UNCHANGED <<showPatientIframe, showStaffIframe>>
       ELSE /\ showPatientIframe' =
                  IF data.type = "CLOSE_STAFF_IFRAME" THEN FALSE ELSE showPatientIframe
            /\ showStaffIframe' =
                  IF data.type = "CLOSE_PATIENT_IFRAME" THEN FALSE ELSE showStaffIframe
    /\ last' = [op |-> "message", origin |-> origin, data |-> data, err |-> "none"]
    /\ UNCHANGED <<requests, storeVars, phase, listening, token, patientIframeUrl,
                   staffIframeUrl, timers, nShows, nPosted>>

\* the listener of setupMessageListener
onMessage(origin, data) ==
    /\ listening
    /\ IF ~data.truthy \/ data.typeof # "object"
       THEN UNCHANGED <<showPatientIframe, showStaffIframe>>
       ELSE /\ showPatientIframe' =
                  IF data.type = "CLOSE_PATIENT_IFRAME" THEN FALSE ELSE showPatientIframe
            /\ showStaffIframe' =
                  IF data.type = "CLOSE_STAFF_IFRAME" THEN FALSE ELSE showStaffIframe
    /\ last' = [op |-> "message", origin |-> origin, data |-> data, err |-> "none"]
    /\ UNCHANGED <<requests, storeVars, phase, listening, token, patientIframeUrl,
                   staffIframeUrl, timers, nShows, nPosted>>

(***************************************************************************)
(* Spec: the Host in a browser, from construction on; the cookie store may *)
(* hold a token an earlier visit stored                                    *)
(***************************************************************************)
Init ==
    /\ platform = "browser"
    /\ platformCheck = TRUE
    /\ jar \in {<<>>} \cup {JarAfterSetToken(<<>>, t) : t \in Inputs \ {<<>>}}
    /\ now = StartTime
    /\ expiry = IF jar = <<>> THEN NoExpiry ELSE ExpiresAfterSet(StartTime)
    /\ last = [op |-> "init", err |-> "none"]
    /\ HostConstructed
    /\ requests = <<>>

Next ==
    \/ NgOnInit
    \/ \E t \in Inputs : InputToken(t)
    \/ onLogin
    \/ togglePatientIframe
    \/ toggleStaffIframe
    \/ \E live \in BOOLEAN : TimerFires(live)
    \/ \E origin \in Origins, data \in MessageData : onMessage(origin, data)

Spec == Init /\ [][Next]_vars

(***************************************************************************)
(* SpecStore: the Token Store under any sequence of calls, on either       *)
(* platform and with either copy of the service                            *)
(***************************************************************************)
Tokens == StringsUpTo(MaxLen)

InitStore ==
    /\ platform \in {"browser", "server"}
    /\ platformCheck \in BOOLEAN
    /\ jar = <<>>
    /\ now = StartTime
    /\ expiry = NoExpiry
    /\ last = [op |-> "init", arg |-> <<>>, err |-> "none"]
    /\ HostConstructed
    /\ requests = <<>>

NextStore ==
    \/ \E t \in Tokens : setToken(t)
    \/ removeToken
    \/ \E c \in OtherCookies : SetOtherCookie(c)

SpecStore == InitStore /\ [][NextStore]_vars

(***************************************************************************)
(* SpecCompose: the URL composer over every token the store can return;    *)
(* the cookie store holds what some setToken(t) left and never changes     *)
(***************************************************************************)
InitCompose ==
    /\ platform = "browser"
    /\ platformCheck = TRUE
    /\ jar \in {<<>>} \cup {JarAfterSetToken(<<>>, t) : t \in Tokens}
    /\ now = StartTime
    /\ expiry = IF jar = <<>> THEN NoExpiry ELSE ExpiresAfterSet(StartTime)
    /\ last = [op |-> "init", err |-> "none"]
    /\ HostConstructed
    /\ requests = <<>>

NextCompose ==
    \/ NgOnInit
    \/ togglePatientIframe
    \/ toggleStaffIframe

SpecCompose == InitCompose /\ [][NextCompose]_vars

(***************************************************************************)
(* SpecExpiry: the Token Store in a browser while the clock runs           *)
(***************************************************************************)
\* the instants the clock visits: one second around the page load and
\* around each 30-day period after it, on and off a whole second
Instants ==
    { [sec |-> StartTime.sec + d + k * ThirtyDaysSec, ms |-> m] :
        d \in {0, 1, 2}, m \in {0, 500}, k \in 0..MaxPeriods }

\* the clock moves on to a later instant; the browser drops the authToken
\* cookie once the clock has reached its expiry
Tick(t) ==
    /\ Before(now, t)
    /\ now' = t
    /\ jar' = IF Before(t, expiry) THEN jar
              ELSE SelectSeq(jar, LAMBDA e : e.name # TOKEN_KEY)
    /\ last' = [op |-> "tick", arg |-> <<>>, err |-> "none"]
    /\ UNCHANGED <<requests, platform, platformCheck, expiry, hostVars>>

InitExpiry ==
    /\ platform = "browser"
    /\ platformCheck \in BOOLEAN
    /\ jar = <<>>
    /\ now \in {t \in Instants : t.sec = StartTime.sec}
    /\ expiry = NoExpiry
    /\ last = [op |-> "init", arg |-> <<>>, err |-> "none"]
    /\ HostConstructed
    /\ requests = <<>>

NextExpiry ==
    \/ \E t \in Inputs : setToken(t)
    \/ removeToken
    \/ \E t \in Instants : Tick(t)

SpecExpiry == InitExpiry /\ [][NextExpiry]_vars

(***************************************************************************)
(* SpecProxy: the Express server. Each request walks the middleware stack: *)
(* the minder-proxy middleware, the login middleware, express.static and   *)
(* the Angular render handler, then the error handler or the 404 handler   *)
(* of Express. The awaits of different requests interleave.                *)
(***************************************************************************)
\* the requests that arrive: a method and a path, as its segments
Arrivals ==
    { [method |-> "GET", path |-> <<"api", "minder-proxy", "x">>],
      [method |-> "POST", path |-> <<"api", "minder-proxy", "x">>],
      [method |-> "POST", path |-> <<"login">>],
      [method |-> "GET", path |-> <<"main.js">>] }

\* what the backend answers: a status and a body
BackendResponses == [ok : {TRUE}, status : {200, 404}, body : {"backend body"}]

\* fetch rejects: the backend cannot be reached or a header is refused
FetchRejected == [ok |-> FALSE, status |-> 0, body |-> "none"]

WorkerOrigin == "https://fe-react-v1.practeaz.workers.dev"

MinderMount == <<"api", "minder-proxy">>

LoginMount == <<"login">>

ProxyLayers == {"minder", "login"}

\* app.use(mount, handler) runs the handler for a path that begins with the
\* segments of mount
Mounted(mount, path) ==
    Len(path) >= Len(mount) /\ SubSeq(path, 1, Len(mount)) = mount

\* the first middleware of the stack that takes the path
FirstLayer(path) ==
    IF Mounted(MinderMount, path) THEN "minder"
    ELSE IF Mounted(LoginMount, path) THEN "login"
    ELSE "static"

\* targetUrl: the minder-proxy middleware appends req.url, the rest of the
\* path after the mount; the login middleware always asks for /login
TargetUrl(layer, path) ==
    IF layer = "minder"
    THEN <<WorkerOrigin>> \o MinderMount \o SubSeq(path, Len(MinderMount) + 1, Len(path))
    ELSE <<WorkerOrigin>> \o LoginMount

\* a request Express has just accepted
NewRequest(m, p) ==
    [method |-> m, path |-> p, layer |-> FirstLayer(p),
     pc |-> IF FirstLayer(p) \in ProxyLayers THEN "enter" ELSE "static",
     visited |-> {}, target |-> <<>>, statusCode |-> 200, backend |-> <<>>,
     nextArg |-> "none", response |-> <<>>]

\* request i becomes r; nothing else changes
Put(i, r) ==
    /\ requests' = [requests EXCEPT ![i] = r]
    /\ UNCHANGED <<storeVars, last, hostVars>>

Arrive(m, p) ==
    /\ Len(requests) < MaxRequests
    /\ requests' = Append(requests, NewRequest(m, p))
    /\ UNCHANGED <<storeVars, last, hostVars>>

\* a catch block that answers 502 itself and then calls next(error) as well
CaughtAndAnswered(r, e) ==
    [r EXCEPT !.nextArg = e, !.pc = "errorHandler",
              !.response = <<[by |-> r.layer, status |-> 502, body |-> "proxy error"]>>]

\* the catch block of a proxy middleware: next(error)
Caught(r, e) == [r EXCEPT !.nextArg = e, !.pc = "errorHandler"]

\* a proxy middleware runs up to its first await: the body of a request
\* that is neither GET nor HEAD is read first, otherwise fetch is called
ProxyEnter(i) ==
    /\ i \in 1..Len(requests)
    /\ requests[i].pc = "enter"
    /\ LET r == requests[i]
       IN  Put(i, [r EXCEPT !.visited = @ \cup {r.layer},
                            !.target = TargetUrl(r.layer, r.path),
                            !.pc = IF r.method \notin {"GET", "HEAD"} THEN "readBody"
                                   ELSE "fetching"])

\* the loop over the chunks of the request ends, or the request stream fails
ReadBody(i, ok) ==
    /\ i \in 1..Len(requests)
    /\ requests[i].pc = "readBody"
    /\ LET r == requests[i]
       IN  Put(i, IF ok THEN [r EXCEPT !.pc = "fetching"] ELSE Caught(r, "Error"))

\* fetch settles: with a response, whose status and headers are put on res
\* before the body is awaited, or with a rejection
FetchSettles(i, out) ==
    /\ i \in 1..Len(requests)
    /\ requests[i].pc = "fetching"
    /\ LET r == requests[i]
       IN  Put(i, IF ~out.ok THEN Caught(r, "TypeError")
                  ELSE [r EXCEPT !.statusCode = out.status, !.backend = <<out>>,
                                 !.pc = "readingResponse"])

\* response.arrayBuffer() settles: res.send(body), or a rejection
BodySettles(i, ok) ==
    /\ i \in 1..Len(requests)
    /\ requests[i].pc = "readingResponse"
    /\ LET r == requests[i]
       IN  Put(i, IF ok
                  THEN [r EXCEPT !.response = <<[by |-> r.layer, status |-> r.statusCode,
                                                 body |-> r.backend[1].body]>>,
                                 !.pc = "done"]
                  ELSE Caught(r, "TypeError"))

\* next(error) skips every middleware that is no error handler; the error
\* handler of Express answers with the status on res when that is an error
\* status and with 500 otherwise, unless a response was sent already
ErrorHandler(i) ==
    /\ i \in 1..Len(requests)
    /\ requests[i].pc = "errorHandler"
    /\ LET r == requests[i]
       IN  Put(i, [r EXCEPT !.response =
                               IF r.response # <<>> THEN r.response
                               ELSE <<[by |-> "express",
                                       status |-> IF r.statusCode >= 400 THEN r.statusCode
                                                  ELSE 500,
                                       body |-> "error page"]>>,
                            !.pc = "done"])

\* express.static answers a GET or HEAD for a file it finds and calls next()
\* otherwise
ServeStatic(i, found) ==
    /\ i \in 1..Len(requests)
    /\ requests[i].pc = "static"
    /\ LET r == requests[i]
           v == [r EXCEPT !.visited = @ \cup {"static"}]
       IN  Put(i, IF found /\ r.method \in {"GET", "HEAD"}
                  THEN [v EXCEPT !.response = <<[by |-> "static", status |-> 200,
                                                 body |-> "file"]>>,
                                 !.pc = "done"]
                  ELSE [v EXCEPT !.pc = "render"])

\* the render handler: angularApp.handle(req) gives a response, which is
\* written, or null, which calls next(), or rejects, which calls next(error)
Render(i, out) ==
    /\ i \in 1..Len(requests)
    /\ requests[i].pc = "render"
    /\ LET r == requests[i]
           v == [r EXCEPT !.visited = @ \cup {"render"}]
       IN  Put(i, IF out = "response"
                  THEN [v EXCEPT !.response = <<[by |-> "render", status |-> 200,
                                                 body |-> "page"]>>,
                                 !.pc = "done"]
                  ELSE IF out = "null" THEN [v EXCEPT !.pc = "final"]
                  ELSE [v EXCEPT !.pc = "errorHandler"])

\* no middleware answered: Express answers 404
FinalHandler(i) ==
    /\ i \in 1..Len(requests)
    /\ requests[i].pc = "final"
    /\ LET r == requests[i]
       IN  Put(i, [r EXCEPT !.response = <<[by |-> "express", status |-> 404,
                                            body |-> "not found"]>>,
                            !.pc = "done"])

InitProxy ==
    /\ platform = "server"
    /\ platformCheck = TRUE
    /\ jar = <<>>
    /\ now = StartTime
    /\ expiry = NoExpiry
    /\ last = [op |-> "init", err |-> "none"]
    /\ HostConstructed
    /\ requests = <<>>

\* the steps the event loop takes for request i
HandlerStep(i) ==
    \/ ProxyEnter(i)
    \/ \E ok \in BOOLEAN : ReadBody(i, ok)
    \/ \E out \in {FetchRejected} \cup BackendResponses : FetchSettles(i, out)
    \/ \E ok \in BOOLEAN : BodySettles(i, ok)
    \/ ErrorHandler(i)
    \/ \E found \in BOOLEAN : ServeStatic(i, found)
    \/ \E out \in {"response", "null", "reject"} : Render(i, out)
    \/ FinalHandler(i)

NextProxy ==
    \/ \E a \in Arrivals : Arrive(a.method, a.path)
    \/ \E i \in 1..MaxRequests : HandlerStep(i)

\* every await settles (the request stream, fetch and the response body all
\* end or fail within their timeouts) and the event loop runs every
\* continuation that is ready
SpecProxy ==
    InitProxy /\ [][NextProxy]_vars /\ \A i \in 1..MaxRequests : WF_vars(HandlerStep(i))

(***************************************************************************)
(* Properties                                                              *)
(***************************************************************************)
showOf(f) == IF f = "patient" THEN showPatientIframe ELSE showStaffIframe

urlOf(f) == IF f = "patient" THEN patientIframeUrl ELSE staffIframeUrl

baseOf(f) == IF f = "patient" THEN patientUrl ELSE staffUrl

\* the step handles a message event
MessageStep == last'.op = "message"

\* the message handled is a structured object of type ty
ObjectOfType(data, ty) == data.truthy /\ data.typeof = "object" /\ data.type = ty

\* C1: handling a message whose origin is not the embedded-frame origin leaves
\* both visibility flags unchanged, whatever its data
C1_OriginCheck ==
    [][(MessageStep /\ last'.origin # FrameOrigin)
          => UNCHANGED <<showPatientIframe, showStaffIframe>>]_vars

\* the step is a toggle that shows frame f while a non-empty token is stored
ShowStep(f) ==
    /\ last'.op = "toggle" /\ last'.frame = f /\ last'.shown
    /\ ~showOf(f)
    /\ Truthy(getToken)

\* the step runs the callback of the show toggle of f that was the previous
\* event, no other callback is pending, a non-empty token is stored and the
\* frame element is there
SendStep(f) ==
    /\ last.op = "toggle" /\ last.frame = f /\ last.shown
    /\ timers = <<f>>
    /\ last'.op = "timer" /\ last'.frame = f /\ last'.live
    /\ Truthy(getToken)

\* C2: a toggle of a Hidden frame, with a non-empty token stored, shows the
\* frame, sets its URL to base?token=encoded token and posts nothing; the
\* callback it scheduled, run after the delay with the frame element there,
\* posts exactly one AUTH_TOKEN message, into that frame
C2_ShowScenario ==
    [][\A f \in Frames :
          /\ ShowStep(f) =>
                /\ showOf(f)'
                /\ urlOf(f)' = baseOf(f) \o TokenQuery \o encodeURIComponent(getToken.str)
                /\ nPosted' = nPosted
                /\ timers' = Append(timers, f)
          /\ SendStep(f) =>
                /\ nPosted' = [nPosted EXCEPT ![f] = @ + 1]
                /\ timers' = <<>>
                /\ Len(last'.msg) = 1
                /\ last'.msg[1].type = "AUTH_TOKEN"
                /\ last'.msg[1].window = f]_vars

C2_Witness ==
    /\ last.op = "timer" /\ last.frame = "patient" /\ last.live
    /\ showPatientIframe
    /\ nShows["patient"] = 1
    /\ nPosted["patient"] = 1
    /\ timers = <<>>

\* C3: in a browser, getToken() right after setToken(t) returns exactly t
C3_RoundTrip ==
    (platform = "browser" /\ last.op = "setToken") => getToken = Str(last.arg)

\* C4: a close message from the embedded-frame origin, handled while its frame
\* is Shown, leaves that frame Hidden
C4_CloseDispatch ==
    [][(MessageStep /\ last'.origin = FrameOrigin) =>
          /\ (ObjectOfType(last'.data, "CLOSE_PATIENT_IFRAME") /\ showPatientIframe)
                => ~showPatientIframe'
          /\ (ObjectOfType(last'.data, "CLOSE_STAFF_IFRAME") /\ showStaffIframe)
                => ~showStaffIframe']_vars

C4_Witness ==
    /\ last.op = "message" /\ last.origin = FrameOrigin
    /\ ObjectOfType(last.data, "CLOSE_STAFF_IFRAME")
    /\ nShows["staff"] = 1
    /\ ~showStaffIframe
    /\ showPatientIframe

\* the token parameter of a composed URL: the text after base?token=
TokenParam(f) == SubSeq(urlOf(f), Len(baseOf(f)) + Len(TokenQuery) + 1, Len(urlOf(f)))

\* the URL of f is base?token=p, where p holds only characters that are safe
\* in a query value and decodes to the string s
IsComposedFrom(f, s) ==
    /\ Len(urlOf(f)) >= Len(baseOf(f)) + Len(TokenQuery)
    /\ SubSeq(urlOf(f), 1, Len(baseOf(f)) + Len(TokenQuery)) = baseOf(f) \o TokenQuery
    /\ \A i \in 1..Len(TokenParam(f)) : TokenParam(f)[i] \in Unreserved \cup {"%"}
    /\ decodeURIComponent(TokenParam(f)) = [err |-> FALSE, str |-> s]

\* C5, as claimed: once computed, the URL of each frame is the base URL when
\* the token is absent and base?token=encoded token when a token is present,
\* the empty string included
C5_ComposeOriginal ==
    (phase = "initialised" /\ ~Threw(getToken)) =>
        \A f \in Frames :
            IF getToken.tag = "string" THEN IsComposedFrom(f, getToken.str)
            ELSE urlOf(f) = baseOf(f)

\* C5, amended: the URL is the base URL when the token is absent or the empty
\* string, and base?token=encoded token when the token is a non-empty string
C5_Compose ==
    (phase = "initialised" /\ ~Threw(getToken)) =>
        \A f \in Frames :
            IF getToken.tag = "string" /\ getToken.str # <<>>
            THEN IsComposedFrom(f, getToken.str)
            ELSE urlOf(f) = baseOf(f)

\* a token with a character that must be escaped was composed into the URL
C5_Witness ==
    /\ phase = "initialised"
    /\ Truthy(getToken)
    /\ \E i \in 1..Len(getToken.str) : getToken.str[i] = "="
    /\ patientIframeUrl # patientUrl
    /\ patientIframeUrl # patientUrl \o TokenQuery \o getToken.str

\* C6: in a browser hasToken() is false before the first setToken, true right
\* after every setToken(t) and false right after every removeToken()
C6_HasTokenLifecycle ==
    platform = "browser" =>
        /\ last.op = "init" => hasToken = "false"
        /\ last.op = "setToken" => hasToken = "true"
        /\ last.op = "removeToken" => hasToken = "false"

\* C7, as claimed: hasToken() is true exactly when getToken() returns a
\* string, the empty string included
C7_HasIffPresent == (hasToken = "true") <=> (getToken.tag = "string")

\* C7, amended: hasToken() is true exactly when getToken() returns a
\* non-empty string, and throws exactly when getToken() throws
C7_HasIffNonEmpty ==
    /\ (hasToken = "true") <=> (getToken.tag = "string" /\ Len(getToken.str) > 0)
    /\ (hasToken \notin {"true", "false"}) <=> Threw(getToken)

\* a non-empty token was stored as the empty value: getToken returns the
\* empty string and hasToken false
C7_Witness ==
    /\ platform = "browser"
    /\ last.op = "setToken" /\ last.arg # <<>>
    /\ getToken = Str(<<>>)
    /\ hasToken = "false"

\* C8: on a cookie string of several entries getToken() returns the value of
\* the entry whose key is authToken, and null when there is none
C8_ExactKey ==
    platform = "browser" =>
        IF \E i \in 1..Len(jar) : jar[i].name = TOKEN_KEY
        THEN \E i \in 1..Len(jar) : jar[i].name = TOKEN_KEY /\ getToken = Str(jar[i].value)
        ELSE getToken = Null

\* C9: on the server setToken and removeToken change nothing and do not
\* throw, getToken returns null and hasToken false
C9_ServerNoOp ==
    platform = "server" =>
        /\ last.err = "none"
        /\ jar = <<>>
        /\ getToken = Null
        /\ hasToken = "false"

\* C10: a deferred send that finds no frame element posts nothing, throws
\* nothing and leaves the flags, the URLs and the stored token unchanged
C10_NoFrameNoOp ==
    [][(last'.op = "timer" /\ ~last'.live) =>
          /\ last'.err = "none"
          /\ last'.msg = <<>>
          /\ nPosted' = nPosted
          /\ UNCHANGED <<showPatientIframe, showStaffIframe, patientIframeUrl,
                         staffIframeUrl, jar, token>>]_vars

\* the origin a postMessage target names: the target without the root path
OriginOfTarget(t) ==
    IF \E o \in Origins : t = o \o "/" THEN CHOOSE o \in Origins : t = o \o "/" ELSE t

\* C11: every message the Host posts is {type: AUTH_TOKEN, token} with the
\* token the store returns at that moment, and its target origin is the
\* origin of the embedded application, never a wildcard
C11_MessageShape ==
    [][(last'.op = "timer" /\ last'.msg # <<>>) =>
          /\ Len(last'.msg) = 1
          /\ last'.msg[1].type = "AUTH_TOKEN"
          /\ getToken = Str(last'.msg[1].token)
          /\ last'.msg[1].targetOrigin # "*"
          /\ OriginOfTarget(last'.msg[1].targetOrigin) = FrameOrigin]_vars

\* a token stored by a login was posted
C11_Witness ==
    /\ last.op = "timer" /\ last.msg # <<>>
    /\ last.msg[1].token = <<"z", " ", "3">>
    /\ nPosted[last.frame] = 1

\* what getToken() returns in the state the step leads to
getTokenAfter == GetTokenIn(platform', platformCheck', jar')

\* C12: onLogin with a non-empty input t leaves t in the store, both URLs
\* composed from t and the input field empty
C12_LoginStores ==
    [][(last'.op = "onLogin" /\ token # <<>>) =>
          /\ getTokenAfter = Str(token)
          /\ patientIframeUrl' = patientUrl \o TokenQuery \o encodeURIComponent(token)
          /\ staffIframeUrl' = staffUrl \o TokenQuery \o encodeURIComponent(token)
          /\ token' = <<>>]_vars

\* C13: onLogin with an empty input changes nothing
C13_EmptyLogin ==
    [][(last'.op = "onLogin" /\ token = <<>>) =>
          UNCHANGED <<jar, expiry, token, patientIframeUrl, staffIframeUrl,
                      showPatientIframe, showStaffIframe, timers, nShows, nPosted>>]_vars

C13_Witness ==
    /\ last.op = "onLogin" /\ ~last.stored
    /\ token = <<>>
    /\ jar # <<>>
    /\ timers # <<>>

\* C14: a toggle of a Shown frame changes that frame's flag to Hidden and
\* nothing else
C14_HideOnly ==
    [][\A f \in Frames :
          (last'.op = "toggle" /\ last'.frame = f /\ showOf(f)) =>
              /\ ~showOf(f)'
              /\ \A g \in Frames \ {f} : showOf(g)' = showOf(g)
              /\ UNCHANGED <<jar, expiry, token, patientIframeUrl, staffIframeUrl,
                             timers, nShows, nPosted>>]_vars

\* a frame was hidden by its toggle while its send was pending
C14_Witness ==
    /\ last.op = "toggle" /\ last.frame = "staff" /\ ~last.shown
    /\ ~showStaffIframe
    /\ timers = <<"staff">>

\* C15: a message never recomputes a URL, never schedules a send and never
\* shows a Hidden frame
C15_CloseBypassesToggle ==
    [][MessageStep =>
          /\ UNCHANGED <<jar, expiry, token, patientIframeUrl, staffIframeUrl,
                         timers, nShows, nPosted>>
          /\ ~showPatientIframe => ~showPatientIframe'
          /\ ~showStaffIframe => ~showStaffIframe']_vars

\* a close message arrived for a frame that was never shown
C15_Witness ==
    /\ last.op = "message" /\ last.origin = FrameOrigin
    /\ ObjectOfType(last.data, "CLOSE_PATIENT_IFRAME")
    /\ nShows["patient"] = 0
    /\ ~showPatientIframe

\* updateIframeUrls was called and returned in this step
RecomputeStep ==
    /\ last'.err = "none"
    /\ \/ last'.op = "ngOnInit"
       \/ last'.op = "toggle" /\ last'.shown
       \/ last'.op = "onLogin" /\ last'.stored

\* url is base when tok is absent or empty, and otherwise base?token=p where
\* p holds only characters safe in a query value and decodes to the token
UrlReflects(url, base, tok) ==
    IF ~Truthy(tok) THEN url = base
    ELSE LET n == Len(base) + Len(TokenQuery)
             p == SubSeq(url, n + 1, Len(url))
         IN  /\ Len(url) >= n
             /\ SubSeq(url, 1, n) = base \o TokenQuery
             /\ \A i \in 1..Len(p) : p[i] \in Unreserved \cup {"%"}
             /\ decodeURIComponent(p) = [err |-> FALSE, str |-> tok.str]

C17_SingleValue ==
    [][platform = "browser" =>
          /\ Cardinality({i \in 1..Len(jar') : jar'[i].name = TOKEN_KEY}) <= 1
          /\ (last.op = "setToken" /\ last'.op = "setToken") =>
                /\ getTokenAfter = Str(last'.arg)
                /\ last.arg # last'.arg => getTokenAfter # Str(last.arg)]_vars

\* the step hides a frame: a toggle of a Shown frame or a message
HideStep == (last'.op = "toggle" /\ ~last'.shown) \/ MessageStep

\* C18: hiding a frame retracts no pending send, and a send that runs with a
\* token stored and the frame element there posts whether or not the frame
\* is shown
C18_NoCancellation ==
    [][/\ HideStep => timers' = timers
       /\ (last'.op = "timer" /\ Truthy(getToken) /\ last'.live) =>
             /\ Len(last'.msg) = 1
             /\ last'.msg[1].window = last'.frame
             /\ nPosted'[last'.frame] = nPosted[last'.frame] + 1]_vars

\* an AUTH_TOKEN message was posted into a frame that is Hidden
C18_Witness ==
    /\ last.op = "timer" /\ last.msg # <<>>
    /\ last.msg[1].type = "AUTH_TOKEN"
    /\ ~showOf(last.frame)
    /\ nPosted[last.frame] = 1

\* the message handled is one of the two close messages
IsClose(data) ==
    ObjectOfType(data, "CLOSE_PATIENT_IFRAME") \/ ObjectOfType(data, "CLOSE_STAFF_IFRAME")

\* C19: a message whose data is no object, or an object of another type,
\* is ignored without an error: flags, URLs and stored token are unchanged
C19_IgnoresOthers ==
    [][(MessageStep /\ ~IsClose(last'.data)) =>
          /\ last'.err = "none"
          /\ UNCHANGED <<showPatientIframe, showStaffIframe, patientIframeUrl,
                         staffIframeUrl, jar, expiry>>]_vars

\* null arrived while both frames were shown, and both still are
C19_Witness ==
    /\ last.op = "message"
    /\ ~last.data.truthy /\ last.data.typeof = "object"
    /\ showPatientIframe /\ showStaffIframe

\* the authToken entry is in the cookie store
HasEntry == \E i \in 1..Len(jar) : jar[i].name = TOKEN_KEY

\* instant t moved on by 30 days, that is by 30*24*60*60*1000 ms
PlusThirtyDays(t) == [sec |-> t.sec + 30 * 24 * 60 * 60, ms |-> t.ms]

PostStep == last'.op = "timer" /\ last'.msg # <<>>

\* C21: whenever an AUTH_TOKEN message is posted into a frame, the token it
\* carries is the token in the composed URL that frame has at that moment,
\* also when an onLogin came between the toggle and the send
C21_ChannelAgreement ==
    [][PostStep =>
          /\ last'.frame = "patient" =>
                UrlReflects(patientIframeUrl', patientUrl, Str(last'.msg[1].token))
          /\ last'.frame = "staff" =>
                UrlReflects(staffIframeUrl', staffUrl, Str(last'.msg[1].token))]_vars

\* the send ran right after an onLogin that stored a token, so the toggle
\* that scheduled it came before that login: message and URL carry its token
C21_Witness ==
    /\ last.op = "timer" /\ last.msg # <<>>
    /\ last.afterLogin
    /\ last.frame = "patient"
    /\ last.msg[1].token = <<"z", " ", "3">>
    /\ patientIframeUrl = patientUrl \o TokenQuery \o <<"z", "%", "2", "0", "3">>

\* the step is a toggle of f from Hidden to Shown
ShowToggleOf(f) == last'.op = "toggle" /\ last'.frame = f /\ last'.shown

\* C22: each toggle of a frame from Hidden to Shown schedules exactly one
\* send for that frame, nothing else schedules one, and the messages posted
\* into a frame never outnumber its toggles from Hidden to Shown
C22_OneSendPerShow ==
    [][/\ \A f \in Frames : ShowToggleOf(f) => timers' = Append(timers, f)
       /\ Len(timers') > Len(timers) => \E f \in Frames : ShowToggleOf(f)
       /\ \A f \in Frames : nPosted'[f] <= nShows'[f]]_vars

\* the store returns no token: absent, or the empty string
NoToken(tok) == tok = Null \/ tok = Str(<<>>)

\* C23: a send that runs while the store holds no token, or an empty one,
\* posts nothing, and a frame shown while the store holds no token gets the
\* bare base URL
C23_NoTokenNoMessage ==
    [][/\ (last'.op = "timer" /\ NoToken(getToken)) =>
             /\ last'.msg = <<>>
             /\ last'.err = "none"
             /\ nPosted' = nPosted
       /\ \A f \in Frames :
             (ShowToggleOf(f) /\ NoToken(getToken)) =>
                 IF f = "patient" THEN patientIframeUrl' = patientUrl
                 ELSE staffIframeUrl' = staffUrl]_vars

\* the patient frame was shown before any login, its send ran with the frame
\* element there, and nothing was posted
C23_Witness ==
    /\ last.op = "timer" /\ last.frame = "patient" /\ last.live
    /\ last.msg = <<>>
    /\ getToken = Null
    /\ showPatientIframe
    /\ patientIframeUrl = patientUrl
    /\ nShows["patient"] = 1 /\ nPosted["patient"] = 0

\* C24: both frames are Hidden when the Host is constructed, and a frame
\* goes from Hidden to Shown only in a step of its own toggle
C24_ShownOnlyByToggle ==
    /\ ~showPatientIframe /\ ~showStaffIframe
    /\ [][/\ (~showPatientIframe /\ showPatientIframe') =>
                (last'.op = "toggle" /\ last'.frame = "patient")
          /\ (~showStaffIframe /\ showStaffIframe') =>
                (last'.op = "toggle" /\ last'.frame = "staff")]_vars

\* a login stored a token while both frames were Hidden, and both still are
C24_Witness ==
    /\ last.op = "onLogin" /\ last.stored /\ last.err = "none"
    /\ Truthy(getToken)
    /\ ~showPatientIframe /\ ~showStaffIframe
    /\ TotalShows = 0

\* the frame that is not f
OtherFrame(f) == IF f = "patient" THEN "staff" ELSE "patient"

\* the step toggles f or handles the close message of f
TouchesFrame(f) ==
    \/ last'.op = "toggle" /\ last'.frame = f
    \/ /\ MessageStep
       /\ ObjectOfType(last'.data, IF f = "patient" THEN "CLOSE_PATIENT_IFRAME"
                                    ELSE "CLOSE_STAFF_IFRAME")

\* C25: toggling or closing one frame never changes the visibility of the
\* other, and a send scheduled by the toggle of one frame posts only into
\* the window of that frame
C25_FrameIndependence ==
    [][/\ (TouchesFrame("patient") => showStaffIframe' = showStaffIframe)
       /\ (TouchesFrame("staff") => showPatientIframe' = showPatientIframe)
       /\ last'.op = "timer" =>
             /\ last'.frame = Head(timers)
             /\ \A i \in 1..Len(last'.msg) : last'.msg[i].window = last'.frame
             /\ nPosted'[OtherFrame(last'.frame)] = nPosted[OtherFrame(last'.frame)]]_vars

\* both frames were shown and the close message of the patient frame hid
\* the patient frame only
C25_Witness ==
    /\ last.op = "message"
    /\ ObjectOfType(last.data, "CLOSE_PATIENT_IFRAME")
    /\ nShows["patient"] = 1 /\ nShows["staff"] = 1
    /\ ~showPatientIframe
    /\ showStaffIframe

\* C26: among host operations only an onLogin with a non-empty input changes
\* the cookie store; toggles, timer callbacks, the recompute at initialisation
\* and messages leave it as it is
C26_OnlyLoginStores ==
    [][(jar' # jar \/ expiry' # expiry) => (last'.op = "onLogin" /\ last'.stored)]_vars

\* a message of type AUTH_TOKEN from a foreign origin arrived after a login,
\* and the store still holds the token of that login
C26_Witness ==
    /\ last.op = "message" /\ last.origin # FrameOrigin
    /\ ObjectOfType(last.data, "AUTH_TOKEN")
    /\ getToken = Str(<<"z", " ", "3">>)
    /\ nPosted["staff"] = 1

\* the proxy middleware that took r sent the response of r
Answered(r) == r.response # <<>> /\ r.response[1].by \in ProxyLayers

\* the proxy middleware that took r called next
Forwarded(r) == r.nextArg # "none"

\* no request a proxy middleware took is both answered and passed to next;
\* an answer carries the status and body of the backend; next is called
\* with an error and without a response of the middleware; and the request
\* is in the static-file and render handlers never, so by no other path
ProxyOutcomeSafe ==
    \A i \in 1..Len(requests) :
        LET r == requests[i]
        IN  r.layer \in ProxyLayers =>
              /\ ~(Answered(r) /\ Forwarded(r))
              /\ Answered(r) =>
                    /\ r.backend # <<>>
                    /\ r.response[1].status = r.backend[1].status
                    /\ r.response[1].body = r.backend[1].body
              /\ Forwarded(r) =>
                    /\ r.nextArg \in {"Error", "TypeError"}
                    /\ r.pc \in {"errorHandler", "done"}
                    /\ r.response # <<>> => r.response[1].by = "express"
              /\ r.visited \cap {"static", "render"} # {} => Forwarded(r)
              /\ r.pc \notin {"static", "render", "final"}

\* request i was taken by a proxy middleware
Proxied(i) == i <= Len(requests) /\ requests[i].layer \in ProxyLayers

\* request i was answered by the proxy middleware or passed to next
Ended(i) == i <= Len(requests) /\ (Answered(requests[i]) \/ Forwarded(requests[i]))

\* C27: every request a proxy middleware takes ends in exactly one of two
\* ways, the status and body of the backend sent as the response, or the
\* error passed to next with no response of the middleware; never both, and
\* the static-file and render handlers see the request by no other path
C27_ProxyOutcome ==
    /\ []ProxyOutcomeSafe
    /\ \A i \in 1..MaxRequests : Proxied(i) ~> Ended(i)

\* one request was answered with the 404 of the backend while another, whose
\* response body failed after the status was put on res, went to next(error)
C27_Witness ==
    /\ Len(requests) = 2
    /\ Answered(requests[1]) /\ requests[1].response[1].status = 404
    /\ Forwarded(requests[2]) /\ requests[2].backend # <<>>
    /\ requests[2].pc = "done"
    /\ requests[2].response[1].by = "express"

====
